---- MODULE Spec2Model ----
(***************************************************************************)
(* A state-machine model of src/bot.py: the `check` command of the scan    *)
(* bot, its single-flight gate (scan_lock), the paced dispatch of          *)
(* check_server tasks, the join (asyncio.gather), the batched geolocation  *)
(* lookup (batch_get_locations), the merge, the partition/sort/render of   *)
(* the report and its chunked delivery.                                    *)
(*                                                                         *)
(* Conventions.  A Python str is a TLA+ string; a str that the code        *)
(* processes character by character (a file line, a file name, a motd, a   *)
(* country code) is a tuple of one-character strings until it has been     *)
(* processed.  A code point outside ASCII is written as one stand-in       *)
(* ASCII character, so that Len agrees with Python's len.  Python's None   *)
(* is the record None; a JSON object is a record whose DOMAIN is the set   *)
(* of keys present.  Every `await` is a point where another invocation may *)
(* run, so every await is the boundary of an action.                       *)
(***************************************************************************)
EXTENDS Integers, Sequences, FiniteSets, TLC

\* ---------------------------------------------------------------- bounds
NumInv == 2
MaxLines == 2
MaxScanLines == 3
MaxGeoIps == 250
MaxChunkServers == 2
MaxDispatchIps == 101

\* ------------------------------------------------------ program constants
BatchSize == 100
ProgressEvery == 50
MsgLimit == 1900
FlagOffset == 127397
HttpOk == 200

Invs == 1 .. NumInv

None == [none |-> TRUE]

\* ------------------------------------------------------------ str helpers
\* F(v), with v evaluated once before F is applied to it (inside ENABLED, TLC
\* evaluates an operator's argument anew at every use of the parameter).
Let(v, F(_)) == CHOOSE r \in {F(x) : x \in {v}} : TRUE

\* "".join(cs[a-1:b]), by halves
RECURSIVE StrRange(_, _, _)
StrRange(cs, a, b) ==
    IF a > b THEN ""
    ELSE IF a = b THEN cs[a]
    ELSE LET mid == (a + b) \div 2
         IN  StrRange(cs, a, mid) \o StrRange(cs, mid + 1, b)

\* The str made of the characters cs.
Str(cs) == Let(cs, LAMBDA v : StrRange(v, 1, Len(v)))

IsSpace(c) == c \in {" ", "\t", "\n", "\r"}

RECURSIVE LStrip(_)
LStrip(cs) == IF cs # <<>> /\ IsSpace(Head(cs)) THEN LStrip(Tail(cs)) ELSE cs

RECURSIVE RStrip(_)
RStrip(cs) ==
    IF cs # <<>> /\ IsSpace(cs[Len(cs)]) THEN RStrip(SubSeq(cs, 1, Len(cs) - 1)) ELSE cs

Strip(cs) == RStrip(LStrip(cs))

EndsWith(cs, suffix) ==
    /\ Len(cs) >= Len(suffix)
    /\ SubSeq(cs, Len(cs) - Len(suffix) + 1, Len(cs)) = suffix

\* dict.get(key, default)
Get(obj, key, default) == IF key \in DOMAIN obj THEN obj[key] ELSE default

Range(s) == {s[k] : k \in DOMAIN s}

\* ------------------------------------------------------------ the inputs
\* ctx.message.attachments: the file names of the attachments, in order.
FileNames == { <<"a", ".", "t", "x", "t">>, <<"a", ".", "c", "s", "v">>, <<"t", "x", "t">> }

AttachmentLists ==
    {<<>>} \cup {<<f>> : f \in FileNames}
           \cup {<< <<"a", ".", "c", "s", "v">>, <<"a", ".", "t", "x", "t">> >>}

\* The lines of an attached file, as content.decode('utf-8').splitlines() yields them.
FileLines == { <<>>, <<" ">>, <<"1">>, <<" ", "1">>, <<"2", " ">> }

Files(lines, max) == UNION {[1 .. n -> lines] : n \in 0 .. max}

\* What `await attachment.read()` and the decode can come to, for files of at
\* most `max` lines, each one of `lines`.
Contents(lines, max) ==
    {[kind |-> "read_error"], [kind |-> "bytes", utf8 |-> FALSE]}
        \cup {[kind |-> "bytes", utf8 |-> TRUE, lines |-> f] : f \in Files(lines, max)}

NonBlank(s) == s # ""

\* ips = [line.strip() for line in ...splitlines() if line.strip()]
ParseIps(lines) == SelectSeq([k \in 1 .. Len(lines) |-> Str(Strip(lines[k]))], NonBlank)

\* ------------------------------------------------------------- the state
VARIABLES
    locked,        \* scan_lock._locked
    presence,      \* the bot's presence (activity name)
    pc,            \* pc[i]: where invocation i of `check` is suspended
    holds,         \* holds[i]: invocation i is inside `async with scan_lock`
    exit,          \* exit[i]: the path on which invocation i ended
    sent,          \* sent[i]: the kinds of the messages ctx.send has delivered for i
    requests,      \* requests[i]: the status checks started and the geo POSTs made for i
    ips,           \* ips[i]: the parsed endpoint list
    index,         \* index[i]: the dispatch loop's index
    tasks,         \* tasks[i]: the check_server tasks created, in creation order
    orphans,       \* orphans[i]: tasks of i still in flight after i has ended
    valid_servers, \* valid_servers[i]: the results that are not None, in task order
    geo,           \* geo[i]: the locals of batch_get_locations and the requests it made
    report,        \* report[i]: final_results, populated, empty, final_lines, footer
    outbox         \* outbox[i]: the messages of the report not yet sent

vars ==
    <<locked, presence, pc, holds, exit, sent, requests, ips, index, tasks, orphans,
      valid_servers, geo, report, outbox>>

gate == <<locked, holds>>
scan == <<ips, index, tasks>>
later == <<valid_servers, geo, report, outbox>>

\* geo[i] before batch_get_locations is called: `calls` counts its calls, `log`
\* lists its POSTs and sleeps and `replies` what its POSTs came to.
NoGeo ==
    [calls |-> 0, chunks |-> <<>>, chunk_no |-> 0, locations |-> <<>>, log |-> <<>>, replies |-> <<>>]

NoReport ==
    [final_results |-> <<>>, populated |-> <<>>, empty |-> <<>>, final_lines |-> <<>>,
     footer |-> "", messages |-> <<>>]

NoRequests == [checks |-> 0, posts |-> 0]

Init ==
    /\ locked = FALSE
    /\ presence = "Idle | Waiting for IPs"
    /\ pc = [i \in Invs |-> "idle"]
    /\ holds = [i \in Invs |-> FALSE]
    /\ exit = [i \in Invs |-> "none"]
    /\ sent = [i \in Invs |-> <<>>]
    /\ requests = [i \in Invs |-> NoRequests]
    /\ ips = [i \in Invs |-> <<>>]
    /\ index = [i \in Invs |-> 0]
    /\ tasks = [i \in Invs |-> <<>>]
    /\ orphans = [i \in Invs |-> 0]
    /\ valid_servers = [i \in Invs |-> <<>>]
    /\ geo = [i \in Invs |-> NoGeo]
    /\ report = [i \in Invs |-> NoReport]
    /\ outbox = [i \in Invs |-> <<>>]

\* The invocation returns or raises out of `check`: its locals are gone; what it
\* leaves behind is the way it ended and the tasks nobody awaits any more.
Ended(i, how) ==
    /\ pc' = [pc EXCEPT ![i] = "ended"]
    /\ exit' = [exit EXCEPT ![i] = how]
    /\ ips' = [ips EXCEPT ![i] = <<>>]
    /\ index' = [index EXCEPT ![i] = 0]
    /\ tasks' = [tasks EXCEPT ![i] = <<>>]
    /\ orphans' = [orphans EXCEPT ![i] = Cardinality({k \in DOMAIN tasks[i] : ~tasks[i][k].done})]
    /\ valid_servers' = [valid_servers EXCEPT ![i] = <<>>]
    /\ geo' = [geo EXCEPT ![i] = NoGeo]
    /\ report' = [report EXCEPT ![i] = NoReport]
    /\ outbox' = [outbox EXCEPT ![i] = <<>>]

\* `async with scan_lock` is left: Lock.release().
Release(i) ==
    /\ locked' = FALSE
    /\ holds' = [holds EXCEPT ![i] = FALSE]

InvokeWaitsOnGate(i, attachments) ==
    /\ pc[i] = "idle"
    /\ \A j \in Invs : j < i => pc[j] # "idle"
    /\ IF locked
         THEN /\ pc' = [pc EXCEPT ![i] = "acquiring"]
              /\ UNCHANGED gate
         ELSE /\ locked' = TRUE
              /\ holds' = [holds EXCEPT ![i] = TRUE]
              /\ pc' = [pc EXCEPT ![i] =
                          IF attachments = <<>> THEN "send_no_attachment"
                          ELSE IF ~EndsWith(attachments[1], <<".", "t", "x", "t">>)
                                 THEN "send_not_txt"
                                 ELSE "reading"]
    /\ UNCHANGED <<presence, exit, sent, requests, scan, orphans, later>>

InvokeValidatesFirst(i, attachments) ==
    /\ pc[i] = "idle"
    /\ \A j \in Invs : j < i => pc[j] # "idle"
    /\ IF locked
         THEN /\ pc' = [pc EXCEPT ![i] = "send_busy"]
              /\ UNCHANGED gate
         ELSE IF attachments = <<>>
                THEN /\ pc' = [pc EXCEPT ![i] = "send_no_attachment"]
                     /\ UNCHANGED gate
                ELSE IF ~EndsWith(attachments[1], <<".", "t", "x", "t">>)
                       THEN /\ pc' = [pc EXCEPT ![i] = "send_not_txt"]
                            /\ UNCHANGED gate
                       ELSE /\ locked' = TRUE
                            /\ holds' = [holds EXCEPT ![i] = TRUE]
                            /\ pc' = [pc EXCEPT ![i] = "reading"]
    /\ UNCHANGED <<presence, exit, sent, requests, scan, orphans, later>>

\* The command arrives (lines 100-113): the busy test, the acquisition of the
\* gate and the two attachment tests run without an await between them.
\* Invocations are numbered in the order of their arrival.
Invoke(i, attachments) ==
    /\ pc[i] = "idle"
    /\ \A j \in Invs : j < i => pc[j] # "idle"
    /\ IF locked
         THEN /\ pc' = [pc EXCEPT ![i] = "send_busy"]
              /\ UNCHANGED gate
         ELSE /\ locked' = TRUE
              /\ holds' = [holds EXCEPT ![i] = TRUE]
              /\ pc' = [pc EXCEPT ![i] =
                          IF attachments = <<>> THEN "send_no_attachment"
                          ELSE IF ~EndsWith(attachments[1], <<".", "t", "x", "t">>)
                                 THEN "send_not_txt"
                                 ELSE "reading"]
    /\ UNCHANGED <<presence, exit, sent, requests, scan, orphans, later>>

\* ctx.send of the busy message has delivered it (line 101); the invocation returns.
BusySent(i) ==
    /\ pc[i] = "send_busy"
    /\ sent' = [sent EXCEPT ![i] = Append(@, "busy")]
    /\ Ended(i, "busy")
    /\ UNCHANGED <<gate, presence, requests>>

InputErrorPcs == {"send_no_attachment", "send_not_txt", "send_read_error", "send_empty"}

ErrorKind(p) ==
    CASE p = "send_no_attachment" -> "no_attachment"
      [] p = "send_not_txt" -> "not_txt"
      [] p = "send_read_error" -> "read_error"
      [] p = "send_empty" -> "empty"

InputErrors == {ErrorKind(p) : p \in InputErrorPcs}

InputErrorNotSent(i) ==
    /\ pc[i] \in InputErrorPcs
    /\ Ended(i, ErrorKind(pc[i]))
    /\ Release(i)
    /\ UNCHANGED <<presence, sent, requests>>

\* ctx.send of an input-error message has delivered it (lines 107, 112, 119,
\* 123); the `return` leaves `async with scan_lock`.
InputErrorSent(i) ==
    /\ pc[i] \in InputErrorPcs
    /\ sent' = [sent EXCEPT ![i] = Append(@, ErrorKind(pc[i]))]
    /\ Ended(i, ErrorKind(pc[i]))
    /\ Release(i)
    /\ UNCHANGED <<presence, requests>>

\* `await attachment.read()` ends (lines 115-128): an exception of the read or of
\* the decode is caught; otherwise the lines are parsed.
ReadReturn(i, content) ==
    /\ pc[i] = "reading"
    /\ IF content.kind = "read_error" \/ ~content.utf8
         THEN /\ pc' = [pc EXCEPT ![i] = "send_read_error"]
              /\ UNCHANGED ips
         ELSE /\ ips' = [ips EXCEPT ![i] = ParseIps(content.lines)]
              /\ pc' = [pc EXCEPT ![i] =
                          IF ParseIps(content.lines) = <<>> THEN "send_empty" ELSE "send_start"]
    /\ UNCHANGED <<gate, presence, exit, sent, requests, index, tasks, orphans, later>>

\* ------------------------------------------------- the remote status API
\* The JSON bodies the status API answers with.  A key the body lacks is absent
\* from the record.  motd.clean is processed character by character.
BodyOffline == [online |-> FALSE]

BodyNoOnline == [players |-> [online |-> 3, max |-> 9]]

BodyBare == [online |-> TRUE]

BodyTwo ==
    [online |-> TRUE,
     players |-> [online |-> 2, max |-> 20,
                  list |-> << [name_clean |-> "al", name |-> "x"], [name |-> "bo"], [uuid |-> "0"] >>],
     version |-> [name_clean |-> "1.20"],
     motd |-> [clean |-> <<" ", "h", "i", "\n", "y", "o", " ">>]]

BodyFive ==
    [online |-> TRUE,
     players |-> [online |-> 5, max |-> 10, list |-> <<>>],
     version |-> [name_clean |-> "1.19"],
     motd |-> [clean |-> <<" ">>]]

LiveBodies == {BodyBare, BodyTwo, BodyFive}

\* What the GET of one check_server call comes to: an exception (network error,
\* timeout, a body that is not JSON) or a response with a status.
Responses ==
    {[kind |-> "exception"], [kind |-> "http", status |-> 503]}
        \cup {[kind |-> "http", status |-> HttpOk, data |-> b] :
                 b \in LiveBodies \cup {BodyOffline, BodyNoOnline}}

\* check_server (lines 33-50)
CheckServer(ip, resp) ==
    IF resp.kind = "exception" THEN None
    ELSE IF resp.status = HttpOk
           THEN IF Get(resp.data, "online", FALSE)
                  THEN [ip |-> ip, data |-> resp.data]
                  ELSE None
           ELSE None

\* ------------------------------------------------------- the dispatch loop
Pending(i) == {k \in DOMAIN tasks[i] : ~tasks[i][k].done}

\* Line 139 with the endpoints taken from the end of the list.
CreateTaskFromEnd(i, idx) ==
    /\ tasks' = [tasks EXCEPT ![i] = Append(@, [ip |-> ips[i][Len(ips[i]) - idx], done |-> FALSE,
                                              overtook |-> FALSE, result |-> None])]
    /\ requests' = [requests EXCEPT ![i].checks = @ + 1]

\* asyncio.create_task(check_server(session, ip)); tasks.append(task).  A task
\* is its endpoint, whether it is done, its result, and whether it ended while
\* a task created before it was still running.
CreateTask(i, idx) ==
    /\ tasks' = [tasks EXCEPT ![i] = Append(@, [ip |-> ips[i][idx + 1], done |-> FALSE, overtook |-> FALSE,
                                              result |-> None])]
    /\ requests' = [requests EXCEPT ![i].checks = @ + 1]

ScanningText(idx, total, ip) ==
    "Scanning " \o ToString(idx) \o "/" \o ToString(total) \o " (" \o ip \o ")..."

\* Lines 135-144 with a progress notification before the first endpoint only.
EnterLoopNotifiesOnce(i, idx) ==
    /\ index' = [index EXCEPT ![i] = idx]
    /\ IF idx < Len(ips[i])
         THEN IF idx = 0
                THEN /\ pc' = [pc EXCEPT ![i] = "presence_scanning"]
                     /\ UNCHANGED <<tasks, requests>>
                ELSE /\ CreateTask(i, idx)
                     /\ pc' = [pc EXCEPT ![i] = "pacing"]
         ELSE /\ pc' = [pc EXCEPT ![i] = "presence_finalizing"]
              /\ UNCHANGED <<tasks, requests>>

\* One turn of `for index, ip in enumerate(ips)` up to its first await (lines
\* 135-142), or the loop's end and the await of line 144.
EnterLoop(i, idx) ==
    /\ index' = [index EXCEPT ![i] = idx]
    /\ IF idx < Len(ips[i])
         THEN IF idx % ProgressEvery = 0
                THEN /\ pc' = [pc EXCEPT ![i] = "presence_scanning"]
                     /\ UNCHANGED <<tasks, requests>>
                ELSE /\ CreateTask(i, idx)
                     /\ pc' = [pc EXCEPT ![i] = "pacing"]
         ELSE /\ pc' = [pc EXCEPT ![i] = "presence_finalizing"]
              /\ UNCHANGED <<tasks, requests>>

\* ctx.send of the start notice returns (line 128); the session is opened and
\* the loop is entered.
StartSent(i) ==
    /\ pc[i] = "send_start"
    /\ sent' = [sent EXCEPT ![i] = Append(@, "start")]
    /\ EnterLoop(i, 0)
    /\ UNCHANGED <<gate, presence, exit, ips, orphans, later>>

\* change_presence of line 137 returns; the task is created and the loop sleeps.
ScanningPresenceSet(i) ==
    /\ pc[i] = "presence_scanning"
    /\ presence' = ScanningText(index[i], Len(ips[i]), ips[i][index[i] + 1])
    /\ CreateTask(i, index[i])
    /\ pc' = [pc EXCEPT ![i] = "pacing"]
    /\ UNCHANGED <<gate, exit, sent, ips, index, orphans, later>>

\* asyncio.sleep(0.2) of line 142 returns.
PacingDone(i) ==
    /\ pc[i] = "pacing"
    /\ EnterLoop(i, index[i] + 1)
    /\ UNCHANGED <<gate, presence, exit, sent, ips, orphans, later>>

\* change_presence of line 144 returns; the invocation awaits gather.
FinalizingPresenceSet(i) ==
    /\ pc[i] = "presence_finalizing"
    /\ presence' = "Finalizing MC scan..."
    /\ pc' = [pc EXCEPT ![i] = "gather"]
    /\ UNCHANGED <<gate, exit, sent, requests, scan, orphans, later>>

TaskDoneInCompletionOrder(i, k, resp) ==
    /\ k \in Pending(i)
    /\ LET slot == Len(tasks[i]) - Cardinality(Pending(i)) + 1
       IN  tasks' = [tasks EXCEPT ![i][k].done = TRUE,
                                  ![i][k].overtook = \E j \in Pending(i) : j < k,
                                  ![i][slot].result = CheckServer(tasks[i][k].ip, resp)]
    /\ UNCHANGED <<gate, presence, pc, exit, sent, requests, ips, index, orphans, later>>

\* One check_server task ends with the answer `resp` to its GET: the task holds
\* what check_server returned.
TaskDone(i, k, resp) ==
    /\ k \in Pending(i)
    /\ tasks' = [tasks EXCEPT ![i][k].done = TRUE,
                              ![i][k].overtook = \E j \in Pending(i) : j < k,
                              ![i][k].result = CheckServer(tasks[i][k].ip, resp)]
    /\ UNCHANGED <<gate, presence, pc, exit, sent, requests, ips, index, orphans, later>>

\* A task whose invocation has ended finishes; nobody reads its result.
OrphanDone(i) ==
    /\ orphans[i] > 0
    /\ orphans' = [orphans EXCEPT ![i] = @ - 1]
    /\ UNCHANGED <<gate, presence, pc, exit, sent, requests, scan, later>>

\* asyncio.gather(*tasks): the results in the order of the tasks (line 145)
Gather(ts) == [k \in 1 .. Len(ts) |-> ts[k].result]

IsResult(r) == r # None

\* valid_servers = [r for r in raw_results if r is not None] (line 148)
ValidServers(raw_results) == SelectSeq(raw_results, IsResult)

\* Lines 145-152 with a gather that returns while tasks are running.
GatherDoneEarly(i) ==
    /\ pc[i] = "gather"
    /\ valid_servers' = [valid_servers EXCEPT ![i] = ValidServers(Gather(tasks[i]))]
    /\ pc' = [pc EXCEPT ![i] = "presence_resolving"]
    /\ UNCHANGED <<gate, presence, exit, sent, requests, scan, orphans, geo, report, outbox>>

\* gather returns once every task is done (lines 145-152).
GatherDone(i) ==
    /\ pc[i] = "gather"
    /\ Pending(i) = {}
    /\ valid_servers' = [valid_servers EXCEPT ![i] = ValidServers(Gather(tasks[i]))]
    /\ pc' = [pc EXCEPT ![i] = "presence_resolving"]
    /\ UNCHANGED <<gate, presence, exit, sent, requests, scan, orphans, geo, report, outbox>>

\* ------------------------------------------- the bulk geolocation lookup
\* The letters a country code is made of, for ord(), upper() and chr().
UpperLetters ==
    <<"A", "B", "C", "D", "E", "F", "G", "H", "I", "J", "K", "L", "M",
      "N", "O", "P", "Q", "R", "S", "T", "U", "V", "W", "X", "Y", "Z">>

LowerLetters ==
    <<"a", "b", "c", "d", "e", "f", "g", "h", "i", "j", "k", "l", "m",
      "n", "o", "p", "q", "r", "s", "t", "u", "v", "w", "x", "y", "z">>

OrdA == 65
RegionalIndicatorA == 127462

\* c.upper()
Upper(c) ==
    IF \E k \in 1 .. 26 : LowerLetters[k] = c
      THEN UpperLetters[CHOOSE k \in 1 .. 26 : LowerLetters[k] = c]
      ELSE c

\* ord(c), for an upper-case letter
Ord(c) == OrdA + (CHOOSE k \in 1 .. 26 : UpperLetters[k] = c) - 1

\* chr(n), for a regional indicator symbol: its stand-in character is the
\* lower-case letter of the same rank.
Chr(n) == LowerLetters[n - RegionalIndicatorA + 1]

\* U+1F3F3 U+FE0F, the white flag: two code points.
WhiteFlag == "F~"

\* get_flag_emoji (lines 21-24); a country code is None or [code |-> its letters]
GetFlagEmoji(country_code) ==
    IF country_code = None \/ country_code.code = <<>>
      THEN WhiteFlag
      ELSE Str([k \in 1 .. Len(country_code.code) |->
                   Chr(Ord(Upper(country_code.code[k])) + FlagOffset)])

Min(a, b) == IF a < b THEN a ELSE b

\* Line 62 with one chunk of all the endpoints.
ChunksOfAll(list) == IF list = <<>> THEN <<>> ELSE <<list>>

\* chunks = [ips[i:i + 100] for i in range(0, len(ips), 100)] (line 62)
Chunks(list) ==
    [c \in 1 .. ((Len(list) + BatchSize - 1) \div BatchSize) |->
        SubSeq(list, (c - 1) * BatchSize + 1, Min(c * BatchSize, Len(list)))]

US == <<"U", "S">>
De == <<"d", "e">>

\* What the POST of one chunk comes to: an exception (network error, timeout, a
\* body that is not JSON), a status other than 200, or 200 with a JSON array:
\* one entry per query; or entries that lack countryCode (a failed query) or
\* query; or an array cut short by an element that is not an object.
GeoKinds == {"exception", "rate_limited", "resolved", "partial", "malformed"}

GeoReplyOf(kind, chunk) ==
    CASE kind = "exception" -> [kind |-> "exception"]
      [] kind = "rate_limited" -> [kind |-> "http", status |-> 429]
      [] kind = "resolved" ->
            [kind |-> "http", status |-> HttpOk,
             results |-> [k \in 1 .. Len(chunk) |-> [query |-> chunk[k], countryCode |-> US]]]
      [] kind = "partial" ->
            [kind |-> "http", status |-> HttpOk,
             results |-> [k \in 1 .. Len(chunk) |->
                             IF k = 1 THEN [query |-> chunk[k]]
                             ELSE IF k = 2 THEN [countryCode |-> De]
                             ELSE [query |-> chunk[k], countryCode |-> De]]]
      [] kind = "malformed" ->
            [kind |-> "http", status |-> HttpOk,
             results |-> << [query |-> chunk[1], countryCode |-> De], [json_type |-> "string"] >>]

\* for entry in results: ... locations[ip_addr] = country (lines 73-79), in
\* closed form.  The loop ends at the first element without .get, which raises
\* AttributeError; of the entries before it, those with a query are stored, a
\* later one replacing an earlier one of the same query.
ProcessEntries(locations, results) ==
    LET bad == {k \in 1 .. Len(results) : "json_type" \in DOMAIN results[k]}
        stop == IF bad = {} THEN Len(results) + 1 ELSE CHOOSE k \in bad : \A j \in bad : k <= j
        stored == {k \in 1 .. stop - 1 : "query" \in DOMAIN results[k] /\ results[k].query # ""}
        keys == {results[k].query : k \in stored}
        Last(ip) == LET at == {k \in stored : results[k].query = ip}
                    IN  CHOOSE k \in at : \A j \in at : j <= k
        Country(entry) == IF "countryCode" \in DOMAIN entry
                            THEN [code |-> entry.countryCode] ELSE None
    IN  [locations |->
            IF keys = {} THEN locations
            ELSE [ip \in DOMAIN locations \cup keys |->
                     IF ip \in keys THEN Country(results[Last(ip)]) ELSE locations[ip]],
         raised |-> bad # {}]

\* Lines 70-79 and 87-89 with a mapping that is emptied when the POST raises.
GeoAfterReplyClears(g, reply) ==
    IF reply.kind = "exception" THEN [locations |-> <<>>, raised |-> TRUE]
    ELSE IF reply.status = HttpOk THEN ProcessEntries(g.locations, reply.results)
    ELSE [locations |-> g.locations, raised |-> FALSE]

\* The body of `try` for one chunk, after the POST (lines 70-79 and 87-89):
\* the mapping afterwards, and whether an exception skipped the rest of `try`.
GeoAfterReply(g, reply) ==
    IF reply.kind = "exception" THEN [locations |-> g.locations, raised |-> TRUE]
    ELSE IF reply.status = HttpOk THEN ProcessEntries(g.locations, reply.results)
    ELSE [locations |-> g.locations, raised |-> FALSE]

\* location_map.get(ip)
Lookup(location_map, ip) == IF ip \in DOMAIN location_map THEN location_map[ip] ELSE None

\* ------------------------------------------------ merge, render, chunking
\* Stand-ins of the code points outside ASCII, one character per code point.
BoxCorner == "+"
Memo == "M"
Bust == "P"
GreenCircle == "G"
WhiteCircle == "W"
BarChart == "C"
CrossMark == "X"
Stopwatch == "T~"
Zap == "Z"

EmptyObject == <<>>

\* cs[a-1:b].replace('\n', '  '), by halves
RECURSIVE ReplaceRange(_, _, _)
ReplaceRange(cs, a, b) ==
    IF a > b THEN <<>>
    ELSE IF a = b THEN (IF cs[a] = "\n" THEN <<" ", " ">> ELSE <<cs[a]>>)
    ELSE LET mid == (a + b) \div 2
         IN  ReplaceRange(cs, a, mid) \o ReplaceRange(cs, mid + 1, b)

\* .replace('\n', '  ')
ReplaceNewlines(cs) == Let(cs, LAMBDA v : ReplaceRange(v, 1, Len(v)))

\* name = p.get('name_clean') or p.get('name'); if name: player_names.append(name)
RECURSIVE PlayerNames(_)
PlayerNames(list) ==
    IF list = <<>> THEN <<>>
    ELSE LET p == Head(list)
             name == IF Get(p, "name_clean", "") # "" THEN p.name_clean ELSE Get(p, "name", "")
         IN  (IF name # "" THEN <<name>> ELSE <<>>) \o PlayerNames(Tail(list))

\* ", ".join(player_names)
RECURSIVE JoinComma(_)
JoinComma(names) ==
    IF names = <<>> THEN ""
    ELSE IF Len(names) = 1 THEN names[1]
    ELSE names[1] \o ", " \o JoinComma(Tail(names))

\* One turn of the loop of lines 159-189.
Enrich(server, location_map) ==
    LET data == server.data
        players_data == Get(data, "players", EmptyObject)
        players_online == Get(players_data, "online", 0)
        players_max == Get(players_data, "max", 0)
        version == Get(Get(data, "version", EmptyObject), "name_clean", "Unknown")
        motd == Str(ReplaceNewlines(Strip(Get(Get(data, "motd", EmptyObject), "clean", <<>>))))
        flag == GetFlagEmoji(Lookup(location_map, server.ip))
    IN  [ip |-> server.ip,
         text |-> flag \o " **" \o server.ip \o "** | Players: " \o ToString(players_online)
                    \o "/" \o ToString(players_max) \o " | Ver: " \o version,
         players |-> players_online,
         players_names |-> JoinComma(PlayerNames(Get(players_data, "list", <<>>))),
         motd |-> motd]

MergeLocatedOnly(servers, location_map) ==
    LET Located(s) == s.ip \in DOMAIN location_map
        kept == SelectSeq(servers, Located)
    IN  [k \in 1 .. Len(kept) |-> Enrich(kept[k], location_map)]

\* final_results (lines 158-189): one entry per valid server, in order
Merge(servers, location_map) ==
    [k \in 1 .. Len(servers) |-> Enrich(servers[k], location_map)]

IsPopulatedOrZero(r) == r.players >= 0

IsPopulated(r) == r.players > 0
IsEmpty(r) == r.players = 0

\* list.sort(key=..., reverse=True), in closed form: the elements grouped by
\* key, the groups by descending key, each group in the order its elements had
\* (the sort is stable).
RECURSIVE SortDescStable(_, _)
SortDescStable(s, keys) ==
    IF keys = {} THEN <<>>
    ELSE LET top == CHOOSE v \in keys : \A w \in keys : w <= v
             HasTop(e) == e.players = top
         IN  SelectSeq(s, HasTop) \o SortDescStable(s, keys \ {top})

Reverse(s) == [p \in 1 .. Len(s) |-> s[Len(s) + 1 - p]]

RECURSIVE SortDescTiesReversed(_, _)
SortDescTiesReversed(s, keys) ==
    IF keys = {} THEN <<>>
    ELSE LET top == CHOOSE v \in keys : \A w \in keys : w <= v
             HasTop(e) == e.players = top
         IN  Reverse(SelectSeq(s, HasTop)) \o SortDescTiesReversed(s, keys \ {top})

Keys(s) == {s[k].players : k \in 1 .. Len(s)}

PopulatedTiesReversed(final_results) ==
    LET s == SelectSeq(final_results, IsPopulated) IN SortDescTiesReversed(s, Keys(s))

\* populated (lines 200 and 202)
Populated(final_results) ==
    LET s == SelectSeq(final_results, IsPopulated) IN SortDescStable(s, Keys(s))

\* empty (line 201)
EmptyServers(final_results) == SelectSeq(final_results, IsEmpty)

\* format_entry (lines 206-210)
FormatEntry(r) ==
    r.text
      \o (IF r.motd # "" THEN "\n   " \o BoxCorner \o " " \o Memo \o " " \o r.motd ELSE "")
      \o (IF r.players_names # ""
            THEN "\n   " \o BoxCorner \o " " \o Bust \o " **Users:** " \o r.players_names
            ELSE "")

\* final_lines (lines 204-219)
FinalLines(populated, empty) ==
    (IF populated # <<>>
       THEN <<"**" \o GreenCircle \o " Servers with Players (" \o ToString(Len(populated)) \o "):**">>
              \o [k \in 1 .. Len(populated) |-> FormatEntry(populated[k])]
              \o <<"">>
       ELSE <<>>)
    \o
    (IF empty # <<>>
       THEN <<"**" \o WhiteCircle \o " Online (Empty) Servers (" \o ToString(Len(empty)) \o "):**">>
              \o [k \in 1 .. Len(empty) |-> FormatEntry(empty[k])]
       ELSE <<>>)

TwoDigits(n) == IF n < 10 THEN "0" \o ToString(n) ELSE ToString(n)

\* round(n / d), ties going to the even neighbour, as the format {:.2f} rounds
RoundDiv(n, d) ==
    LET q == n \div d
        r == n % d
    IN  IF 2 * r > d THEN q + 1
        ELSE IF 2 * r = d THEN q + (q % 2)
        ELSE q

\* footer (lines 192-198 and 221); the wall-clock difference is in milliseconds
Footer(total_ips, duration_ms) ==
    LET minutes == (duration_ms \div 1000) \div 60
        seconds == (duration_ms \div 1000) % 60
        hundredths == IF duration_ms > 0 THEN RoundDiv(total_ips * 100000, duration_ms) ELSE 0
    IN  "\n" \o Stopwatch \o " **Time:** " \o ToString(minutes) \o "m " \o ToString(seconds) \o "s"
          \o "\n" \o Zap \o " **Speed:** " \o ToString(hundredths \div 100) \o "."
          \o TwoDigits(hundredths % 100) \o " IPs/sec"

Header == "**" \o BarChart \o " Scan Complete!**\n"

\* "".join(line + "\n" for line in lines[a-1:b])
RECURSIVE JoinLines(_, _, _)
JoinLines(lines, a, b) ==
    IF a > b THEN ""
    ELSE IF a = b THEN lines[a] \o "\n"
    ELSE LET mid == (a + b) \div 2
         IN  JoinLines(lines, a, mid) \o JoinLines(lines, mid + 1, b)

\* len of that text
RECURSIVE JoinedLen(_, _, _)
JoinedLen(lines, a, b) ==
    IF a > b THEN 0
    ELSE IF a = b THEN Len(lines[a]) + 1
    ELSE LET mid == (a + b) \div 2
         IN  JoinedLen(lines, a, mid) + JoinedLen(lines, mid + 1, b)

\* The loop of lines 228-232 from line `start` on, in closed form between two
\* The loop of lines 228-232 with the test `len(chunk) + len(line) > 1900`.
RECURSIVE ChunkLoopForgetsNewline(_, _, _, _)
ChunkLoopForgetsNewline(out, chunk, lines, start) ==
    LET n == Len(lines)
        Size(m) == Len(chunk) + JoinedLen(lines, start, m)
        Fits(m) == m = start - 1 \/ Size(m) - 1 <= MsgLimit
        Last == CHOOSE m \in start - 1 .. n : Fits(m) /\ (m < n => ~Fits(m + 1))
        Rest(last) ==
            Let(chunk \o JoinLines(lines, start, last),
                LAMBDA built :
                    IF last = n THEN [out |-> out, chunk |-> built]
                    ELSE ChunkLoopForgetsNewline(Append(out, built), lines[last + 1] \o "\n",
                                                 lines, last + 2))
    IN  Let(Last, Rest)

\* sends: `out` are the chunks sent so far and `chunk` the chunk being built.
\* The lines up to the last one with which the chunk stays within the limit
\* are added to it (none, if the chunk is beyond the limit as it is); the line
\* after them makes the loop send the chunk and begin the next chunk with
\* that line.
RECURSIVE ChunkLoop(_, _, _, _)
ChunkLoop(out, chunk, lines, start) ==
    LET n == Len(lines)
        Size(m) == Len(chunk) + JoinedLen(lines, start, m)
        Last == CHOOSE m \in start - 1 .. n :
                    /\ Size(m) <= MsgLimit \/ m = start - 1
                    /\ m < n => Size(m + 1) > MsgLimit
        Rest(last) ==
            Let(chunk \o JoinLines(lines, start, last),
                LAMBDA built :
                    IF last = n THEN [out |-> out, chunk |-> built]
                    ELSE ChunkLoop(Append(out, built), lines[last + 1] \o "\n", lines, last + 2))
    IN  Let(Last, Rest)

\* Lines 223-238 with the summary always sent as a message of its own.
MessagesFooterAlone(final_lines, footer) ==
    IF final_lines = <<>>
      THEN << CrossMark \o " No working servers found.\n" \o footer >>
      ELSE Let(ChunkLoop(<<>>, Header, final_lines, 1),
               LAMBDA l : l.out \o <<l.chunk, footer>>)

\* The messages lines 223-238 send, in order.
Messages(final_lines, footer) ==
    IF final_lines = <<>>
      THEN << CrossMark \o " No working servers found.\n" \o footer >>
      ELSE Let(ChunkLoop(<<>>, Header, final_lines, 1),
               LAMBDA l : IF Len(l.chunk) + Len(footer) + 1 > MsgLimit
                            THEN l.out \o <<l.chunk, footer>>
                            ELSE Append(l.out, l.chunk \o footer))

\* time.time() - start_time, in milliseconds: the wall clock may stand still.
Durations == {0, 75400}

\* --------------------------------------------- the phases after the join
\* The merge, the statistics, the rendering and the chunking (lines 158-238)
\* for the valid servers, the mapping, the number of endpoints and the time
\* the scan took.
Render(servers, location_map, total_ips, duration_ms) ==
    LET footer == Footer(total_ips, duration_ms)
        Chunked(final_results, populated, empty, final_lines) ==
            [final_results |-> final_results, populated |-> populated, empty |-> empty,
             final_lines |-> final_lines, footer |-> footer,
             messages |-> Messages(final_lines, footer)]
        Rendered(final_results, populated, empty) ==
            Let(FinalLines(populated, empty),
                LAMBDA final_lines : Chunked(final_results, populated, empty, final_lines))
        Sorted(final_results) ==
            Let(Populated(final_results),
                LAMBDA populated : Rendered(final_results, populated, EmptyServers(final_results)))
    IN  Let(Merge(servers, location_map), Sorted)

\* batch_get_locations has returned `location_map` (line 155): the merge, the
\* end of the session, the statistics, the rendering and the chunking run up
\* to the first ctx.send of the report (lines 158-238).
FinishScan(i, location_map, duration_ms) ==
    /\ report' = [report EXCEPT ![i] = Render(valid_servers[i], location_map, Len(ips[i]), duration_ms)]
    /\ outbox' = [outbox EXCEPT ![i] = report'[i].messages]
    /\ pc' = [pc EXCEPT ![i] = "send_report"]

\* The loop of line 64 takes its next chunk and POSTs it, or the function
\* returns (line 91).
NextChunk(i, g, duration_ms) ==
    IF g.chunk_no < Len(g.chunks)
      THEN /\ geo' = [geo EXCEPT ![i] =
                        [g EXCEPT !.chunk_no = @ + 1,
                                  !.log = Append(@, [op |-> "post", ips |-> g.chunks[g.chunk_no + 1]])]]
           /\ requests' = [requests EXCEPT ![i].posts = @ + 1]
           /\ pc' = [pc EXCEPT ![i] = "geo_post"]
           /\ UNCHANGED <<report, outbox>>
      ELSE /\ geo' = [geo EXCEPT ![i] = g]
           /\ FinishScan(i, g.locations, duration_ms)
           /\ UNCHANGED requests

\* change_presence of line 152 returns; batch_get_locations is called: with no
\* valid server it returns at once (lines 57-59).
ResolvingPresenceSet(i, duration_ms) ==
    /\ pc[i] = "presence_resolving"
    /\ presence' = "Resolving locations..."
    /\ LET valid_ips == [k \in 1 .. Len(valid_servers[i]) |-> valid_servers[i][k].ip]
       IN  IF valid_ips = <<>>
             THEN /\ geo' = [geo EXCEPT ![i] = [@ EXCEPT !.calls = @ + 1]]
                  /\ FinishScan(i, <<>>, duration_ms)
                  /\ UNCHANGED requests
             ELSE NextChunk(i, [geo[i] EXCEPT !.calls = @ + 1, !.chunks = Chunks(valid_ips)],
                            duration_ms)
    /\ UNCHANGED <<gate, exit, sent, scan, orphans, valid_servers>>

GeoReplyUncaught(i, reply, duration_ms) ==
    /\ pc[i] = "geo_post"
    /\ IF reply.kind = "exception"
         THEN /\ Ended(i, "raised")
              /\ Release(i)
              /\ UNCHANGED <<presence, sent, requests>>
         ELSE /\ LET after == GeoAfterReply(geo[i], reply)
                     g == [geo[i] EXCEPT !.locations = after.locations, !.replies = Append(@, reply)]
                 IN  IF ~after.raised /\ Len(g.chunks) > 1
                       THEN /\ geo' = [geo EXCEPT ![i] = [g EXCEPT !.log = Append(@, [op |-> "sleep"])]]
                            /\ pc' = [pc EXCEPT ![i] = "geo_sleep"]
                            /\ UNCHANGED <<report, outbox, requests>>
                       ELSE NextChunk(i, g, duration_ms)
              /\ UNCHANGED <<gate, presence, exit, sent, scan, orphans, valid_servers>>

\* The POST of the current chunk ends with `reply` (lines 70-89): the sleep of
\* line 85 is inside `try`, after the entries.
GeoReply(i, reply, duration_ms) ==
    /\ pc[i] = "geo_post"
    /\ LET after == GeoAfterReply(geo[i], reply)
           g == [geo[i] EXCEPT !.locations = after.locations, !.replies = Append(@, reply)]
       IN  IF ~after.raised /\ Len(g.chunks) > 1
             THEN /\ geo' = [geo EXCEPT ![i] = [g EXCEPT !.log = Append(@, [op |-> "sleep"])]]
                  /\ pc' = [pc EXCEPT ![i] = "geo_sleep"]
                  /\ UNCHANGED <<report, outbox, requests>>
             ELSE NextChunk(i, g, duration_ms)
    /\ UNCHANGED <<gate, presence, exit, sent, scan, orphans, valid_servers>>

\* The POST ends with the reply of kind `kind` to its chunk.
GeoReplied(i, kind, duration_ms) ==
    /\ pc[i] = "geo_post"
    /\ GeoReply(i, GeoReplyOf(kind, geo[i].chunks[geo[i].chunk_no]), duration_ms)

\* asyncio.sleep(2) of line 85 returns.
GeoSleepDone(i, duration_ms) ==
    /\ pc[i] = "geo_sleep"
    /\ NextChunk(i, geo[i], duration_ms)
    /\ UNCHANGED <<gate, presence, exit, sent, scan, orphans, valid_servers>>

\* ctx.send has delivered one message of the report (lines 224, 230, 235-238);
\* after the last one the invocation awaits change_presence (line 240).
ReportSent(i) ==
    /\ pc[i] = "send_report"
    /\ sent' = [sent EXCEPT ![i] =
                    Append(@, IF report[i].final_lines = <<>> THEN "none_found" ELSE "report")]
    /\ outbox' = [outbox EXCEPT ![i] = Tail(@)]
    /\ pc' = [pc EXCEPT ![i] = IF Tail(outbox[i]) = <<>> THEN "presence_idle" ELSE "send_report"]
    /\ UNCHANGED <<gate, presence, exit, requests, scan, orphans, valid_servers, geo, report>>

\* change_presence of line 240 returns; `async with scan_lock` is left.
IdlePresenceSet(i) ==
    /\ pc[i] = "presence_idle"
    /\ presence' = "Idle | Waiting for IPs"
    /\ Ended(i, "reported")
    /\ Release(i)
    /\ UNCHANGED <<sent, requests>>

\* The awaits on the chat platform: ctx.send and bot.change_presence.
DiscordAwaits ==
    {"send_busy", "send_start", "presence_scanning", "presence_finalizing",
     "presence_resolving", "send_report", "presence_idle"} \cup InputErrorPcs

DiscordRaiseKeepsGate(i) ==
    /\ pc[i] \in DiscordAwaits
    /\ Ended(i, "raised")
    /\ UNCHANGED <<gate, presence, sent, requests>>

\* ctx.send or change_presence raises (discord.HTTPException, a closed
\* connection): the exception leaves `check`, through `async with` when inside.
DiscordRaise(i) ==
    /\ pc[i] \in DiscordAwaits
    /\ Ended(i, "raised")
    /\ IF holds[i] THEN Release(i) ELSE UNCHANGED gate
    /\ UNCHANGED <<presence, sent, requests>>

\* ------------------------------------------------------ the specifications
\* The steps of invocation i in which nothing of the chat platform fails, with
\* the answers of the environment drawn from the given sets.
Step(i, contents, responses, geo_kinds, durations) ==
    \/ \E a \in AttachmentLists : Invoke(i, a)
    \/ InputErrorSent(i)
    \/ \E c \in contents : ReadReturn(i, c)
    \/ StartSent(i)
    \/ ScanningPresenceSet(i)
    \/ PacingDone(i)
    \/ FinalizingPresenceSet(i)
    \/ \E k \in DOMAIN tasks[i], r \in responses : TaskDone(i, k, r)
    \/ GatherDone(i)
    \/ \E d \in durations : ResolvingPresenceSet(i, d)
    \/ \E d \in durations, g \in geo_kinds : GeoReplied(i, g, d)
    \/ ReportSent(i)
    \/ IdlePresenceSet(i)

\* In Spec and FairSpec a file's lines are blank or name one endpoint, and each
\* remote API has one failing and one succeeding answer.
FewLines == { <<" ">>, <<"1">> }
FewResponses == {[kind |-> "exception"], [kind |-> "http", status |-> HttpOk, data |-> BodyTwo]}
FewGeoKinds == {"exception", "resolved"}
OneDuration == {75400}

\* Spec: several commands, which may arrive while another is being served, and
\* a chat platform whose calls may raise.
Next ==
    \E i \in Invs :
        \/ Step(i, Contents(FewLines, MaxLines), FewResponses, FewGeoKinds, OneDuration)
        \/ BusySent(i)
        \/ OrphanDone(i)
        \/ DiscordRaise(i)

Spec == Init /\ [][Next]_vars

\* FairSpec: the same commands with a chat platform whose calls return, every
\* probe and every POST resolving, and the event loop running whatever is ready.
FairNext ==
    \E i \in Invs :
        \/ Step(i, Contents(FewLines, MaxLines), FewResponses, FewGeoKinds, OneDuration)
        \/ BusySent(i)

Resume(i) ==
    \/ InputErrorSent(i)
    \/ \E c \in Contents(FewLines, MaxLines) : ReadReturn(i, c)
    \/ StartSent(i)
    \/ ScanningPresenceSet(i)
    \/ PacingDone(i)
    \/ FinalizingPresenceSet(i)
    \/ \E k \in DOMAIN tasks[i], r \in FewResponses : TaskDone(i, k, r)
    \/ GatherDone(i)
    \/ \E d \in OneDuration : ResolvingPresenceSet(i, d)
    \/ \E d \in OneDuration, g \in FewGeoKinds : GeoReplied(i, g, d)
    \/ ReportSent(i)
    \/ IdlePresenceSet(i)
    \/ BusySent(i)

FairSpec == Init /\ [][FairNext]_vars /\ \A i \in Invs : WF_vars(Resume(i))

\* ScanSpec: one command, with every answer of the remote APIs.
ScanNext ==
    \/ Step(1, Contents(FileLines, MaxScanLines), Responses, GeoKinds, Durations)
    \/ OrphanDone(1)
    \/ DiscordRaise(1)

ScanSpec == Init /\ [][ScanNext]_vars

\* GeoSpec: a scan of up to MaxGeoIps endpoints from the moment its last status
\* check has ended, so that the lookup needs several batches.
GeoSizes == {1, BatchSize, BatchSize + 1, MaxGeoIps}

\* The body endpoint k answered with; with `dead_every` = d > 0 every d-th
\* endpoint is not live.
GeoResponse(k, dead_every) ==
    IF dead_every > 0 /\ k % dead_every = 0 THEN [kind |-> "exception"]
    ELSE [kind |-> "http", status |-> HttpOk,
          data |-> IF k % 3 = 0 THEN BodyFive ELSE IF k % 3 = 1 THEN BodyTwo ELSE BodyBare]

GeoInit ==
    \E n \in GeoSizes, dead_every \in {0, 1, 7} :
        /\ locked = TRUE
        /\ presence = "Finalizing MC scan..."
        /\ pc = [i \in Invs |-> IF i = 1 THEN "gather" ELSE "idle"]
        /\ holds = [i \in Invs |-> i = 1]
        /\ exit = [i \in Invs |-> "none"]
        /\ sent = [i \in Invs |-> IF i = 1 THEN <<"start">> ELSE <<>>]
        /\ requests = [i \in Invs |-> IF i = 1 THEN [checks |-> n, posts |-> 0] ELSE NoRequests]
        /\ ips = [i \in Invs |-> IF i = 1 THEN [k \in 1 .. n |-> ToString(k)] ELSE <<>>]
        /\ index = [i \in Invs |-> IF i = 1 THEN n ELSE 0]
        /\ tasks = [i \in Invs |->
                      IF i = 1
                        THEN [k \in 1 .. n |->
                                [ip |-> ToString(k), done |-> TRUE, overtook |-> FALSE,
                                 result |-> CheckServer(ToString(k), GeoResponse(k, dead_every))]]
                        ELSE <<>>]
        /\ orphans = [i \in Invs |-> 0]
        /\ valid_servers = [i \in Invs |-> <<>>]
        /\ geo = [i \in Invs |-> NoGeo]
        /\ report = [i \in Invs |-> NoReport]
        /\ outbox = [i \in Invs |-> <<>>]

GeoNext ==
    \/ GatherDone(1)
    \/ \E d \in OneDuration : ResolvingPresenceSet(1, d)
    \/ \E d \in OneDuration, g \in GeoKinds : GeoReplied(1, g, d)
    \/ \E d \in OneDuration : GeoSleepDone(1, d)
    \/ ReportSent(1)
    \/ IdlePresenceSet(1)

GeoSpec == GeoInit /\ [][GeoNext]_vars

\* ChunkSpec: a scan of up to MaxChunkServers live endpoints from the moment
\* its last status check has ended, whose servers report descriptions so long
\* that the report needs several messages.
LongBody(n) == [online |-> TRUE, motd |-> [clean |-> [k \in 1 .. n |-> "m"]]]

\* len(format_entry(s)) for an empty server with a description of n characters
EntryLen(n) == Len(FormatEntry(Enrich([ip |-> "1", data |-> LongBody(n)], <<>>)))

\* len(footer) of a scan of OneDuration
FooterLen == Len(Footer(1, CHOOSE d \in OneDuration : TRUE))

\* len(chunk) before the first entry of a report without populated servers
FirstLen == Len(Header) + Len(FinalLines(<<>>, <<Enrich([ip |-> "1", data |-> BodyBare], <<>>)>>)[1]) + 1

\* The lengths of an entry at which the tests of lines 229 and 234 change
\* their outcome.
EntryLens ==
    { MsgLimit - 1, MsgLimit,
      MsgLimit - 1 - FirstLen, MsgLimit - FirstLen,
      MsgLimit - 2 - FirstLen - FooterLen, MsgLimit - 1 - FirstLen - FooterLen }

ChunkBodies == {BodyBare, BodyFive} \cup {LongBody(e - (EntryLen(1) - 1)) : e \in EntryLens}

ChunkInit ==
    \E n \in 1 .. MaxChunkServers :
        \E bodies \in [1 .. n -> ChunkBodies] :
            /\ locked = TRUE
            /\ presence = "Finalizing MC scan..."
            /\ pc = [i \in Invs |-> IF i = 1 THEN "gather" ELSE "idle"]
            /\ holds = [i \in Invs |-> i = 1]
            /\ exit = [i \in Invs |-> "none"]
            /\ sent = [i \in Invs |-> IF i = 1 THEN <<"start">> ELSE <<>>]
            /\ requests = [i \in Invs |-> IF i = 1 THEN [checks |-> n, posts |-> 0] ELSE NoRequests]
            /\ ips = [i \in Invs |-> IF i = 1 THEN [k \in 1 .. n |-> ToString(k)] ELSE <<>>]
            /\ index = [i \in Invs |-> IF i = 1 THEN n ELSE 0]
            /\ tasks = [i \in Invs |->
                          IF i = 1
                            THEN [k \in 1 .. n |->
                                    [ip |-> ToString(k), done |-> TRUE, overtook |-> FALSE,
                                     result |-> CheckServer(ToString(k),
                                                            [kind |-> "http", status |-> HttpOk,
                                                             data |-> bodies[k]])]]
                            ELSE <<>>]
            /\ orphans = [i \in Invs |-> 0]
            /\ valid_servers = [i \in Invs |-> <<>>]
            /\ geo = [i \in Invs |-> NoGeo]
            /\ report = [i \in Invs |-> NoReport]
            /\ outbox = [i \in Invs |-> <<>>]

ChunkNext ==
    \/ GatherDone(1)
    \/ \E d \in OneDuration : ResolvingPresenceSet(1, d)
    \/ \E d \in OneDuration, g \in FewGeoKinds : GeoReplied(1, g, d)
    \/ ReportSent(1)
    \/ IdlePresenceSet(1)

ChunkSpec == ChunkInit /\ [][ChunkNext]_vars


\* DispatchSpec: the dispatch loop of a scan of up to MaxDispatchIps endpoints,
\* from the start notice to the join, so that the progress interval passes
\* more than once.  The status checks end in the order they were started.
DispatchSizes == {1, ProgressEvery, ProgressEvery + 1, MaxDispatchIps}

DispatchInit ==
    \E n \in DispatchSizes :
        /\ locked = TRUE
        /\ presence = "Idle | Waiting for IPs"
        /\ pc = [i \in Invs |-> IF i = 1 THEN "send_start" ELSE "idle"]
        /\ holds = [i \in Invs |-> i = 1]
        /\ exit = [i \in Invs |-> "none"]
        /\ sent = [i \in Invs |-> <<>>]
        /\ requests = [i \in Invs |-> NoRequests]
        /\ ips = [i \in Invs |-> IF i = 1 THEN [k \in 1 .. n |-> ToString(k)] ELSE <<>>]
        /\ index = [i \in Invs |-> 0]
        /\ tasks = [i \in Invs |-> <<>>]
        /\ orphans = [i \in Invs |-> 0]
        /\ valid_servers = [i \in Invs |-> <<>>]
        /\ geo = [i \in Invs |-> NoGeo]
        /\ report = [i \in Invs |-> NoReport]
        /\ outbox = [i \in Invs |-> <<>>]

\* The oldest running status check of i ends.
OldestDone(i) ==
    \E k \in Pending(i) :
        /\ \A j \in Pending(i) : k <= j
        /\ TaskDone(i, k, GeoResponse(k, 7))

DispatchNext ==
    \/ StartSent(1)
    \/ ScanningPresenceSet(1)
    \/ PacingDone(1)
    \/ FinalizingPresenceSet(1)
    \/ OldestDone(1)
    \/ GatherDone(1)

DispatchSpec == DispatchInit /\ [][DispatchNext]_vars

\* ---------------------------------------------------------------- claims
Live(i) == pc[i] \notin {"idle", "ended"}

\* Invocation i has a status check, a geolocation request or a message of the
\* report in flight.
InFlight(i) ==
    \/ Pending(i) # {}
    \/ orphans[i] > 0
    \/ pc[i] \in {"geo_post", "send_report"}

\* C1: at most one invocation holds the gate, and every status check,
\* geolocation request and report message in flight belongs to the invocation
\* that holds it.
C1_OneScanActive ==
    /\ Cardinality({i \in Invs : holds[i]}) <= 1
    /\ \A i \in Invs : InFlight(i) => holds[i]

\* C2: a command that arrives while the gate is held goes to the busy message
\* and nowhere else, changes nothing but its own position, never holds the
\* gate, starts no status check and no geolocation request, and when its
\* message is out it has ended for good, with the state of every other
\* invocation, the gate and the presence as they were.
C2_BusyRejected ==
    [][\A b \in Invs :
          /\ (pc[b] = "idle" /\ pc'[b] # "idle" /\ locked) =>
                /\ pc'[b] = "send_busy"
                /\ \A a \in Invs \ {b} : pc'[a] = pc[a]
                /\ UNCHANGED <<gate, presence, exit, sent, requests, scan, orphans, later>>
          /\ (pc[b] = "send_busy" /\ pc'[b] # "send_busy") =>
                /\ pc'[b] = "ended"
                /\ exit'[b] \in {"busy", "raised"}
                /\ ~holds'[b]
                /\ requests'[b] = NoRequests
                /\ tasks'[b] = <<>> /\ orphans'[b] = 0
                /\ \A a \in Invs \ {b} :
                      /\ pc'[a] = pc[a] /\ exit'[a] = exit[a] /\ sent'[a] = sent[a]
                      /\ requests'[a] = requests[a] /\ ips'[a] = ips[a]
                      /\ index'[a] = index[a] /\ tasks'[a] = tasks[a]
                      /\ orphans'[a] = orphans[a] /\ valid_servers'[a] = valid_servers[a]
                      /\ geo'[a] = geo[a] /\ report'[a] = report[a] /\ outbox'[a] = outbox[a]
                /\ UNCHANGED <<gate, presence>>
          /\ (exit[b] = "busy" => pc'[b] = "ended" /\ exit'[b] = "busy" /\ requests'[b] = NoRequests)
    ]_vars

C2_Witness ==
    \E a, b \in Invs : exit[b] = "busy" /\ holds[a] /\ Pending(a) # {} /\ sent[b] = <<"busy">>

\* C3: an invocation that has ended, on whichever path, does not hold the gate,
\* and the gate is closed only while an invocation that has not ended holds
\* it: no command is rejected because of an invocation that has ended.
C3_GateReleased ==
    /\ \A i \in Invs : holds[i] => Live(i)
    /\ locked <=> \E i \in Invs : holds[i]

C3_Witness ==
    \E i, j \in Invs :
        /\ exit[i] = "raised" /\ orphans[i] > 0
        /\ holds[j] /\ pc[j] = "send_start"

\* C4 as stated: an invocation about to send an input-error message does not
\* hold the gate.
C4_GateNeverAcquired == \A i \in Invs : pc[i] \in InputErrorPcs => ~holds[i]

\* C4 as amended: an invocation with an input error holds the gate from its
\* arrival until its message is out, alone, and not afterwards; a command is
\* rejected because of it only while its message is on the way.
C4_GateHeldUntilErrorSent ==
    \A i \in Invs :
        /\ pc[i] \in InputErrorPcs \cup {"reading"} =>
              /\ holds[i] /\ locked
              /\ \A j \in Invs \ {i} : ~holds[j]
        /\ exit[i] \in InputErrors =>
              /\ ~holds[i]
              /\ locked => \E j \in Invs \ {i} : holds[j] /\ Live(j)

C4_Witness ==
    \E i, j \in Invs : pc[i] \in InputErrorPcs /\ holds[i] /\ pc[j] = "send_busy"

\* C5: an invocation with an input error has started no status check and made
\* no geolocation request, neither before its message nor after, and when it
\* has ended its message, and nothing else, has been sent.
C5_InputErrorNoRequests ==
    \A i \in Invs :
        /\ pc[i] \in InputErrorPcs =>
              requests[i] = NoRequests /\ sent[i] = <<>> /\ tasks[i] = <<>>
        /\ exit[i] \in InputErrors =>
              requests[i] = NoRequests /\ sent[i] = <<exit[i]>> /\ orphans[i] = 0

C5_Witness ==
    /\ {exit[i] : i \in Invs} \subseteq InputErrors
    /\ \E i \in Invs : exit[i] = "read_error"
    /\ \E i \in Invs : exit[i] = "empty"

Reported(i) == pc[i] \in {"send_report", "presence_idle"}

IsReportKind(m) == m = "report"

\* C6: a scan whose input has been accepted comes to its end with the start
\* notice followed by its report (the single no-server message, or one or
\* more chunks), and no longer holds the gate.
C6_ScanCompletes ==
    \A i \in Invs :
        (pc[i] = "send_start") ~>
            /\ pc[i] = "ended" /\ exit[i] = "reported" /\ ~holds[i]
            /\ Len(sent[i]) >= 2 /\ sent[i][1] = "start"
            /\ \/ Tail(sent[i]) = <<"none_found">>
               \/ SelectSeq(Tail(sent[i]), IsReportKind) = Tail(sent[i])

C6_Witness ==
    \E i, j \in Invs :
        /\ exit[i] = "reported" /\ sent[i] = <<"start", "none_found">> /\ requests[i].checks >= 2
        /\ exit[j] = "reported" /\ sent[j] = <<"start", "report">> /\ requests[j].posts = 1

\* C7: the live results are at most as many as the endpoints of the input,
\* each result's endpoint is one of the input, and no two results have the
\* same endpoint.
C7_ResultsWithinInput ==
    \A i \in Invs :
        Reported(i) =>
            LET fr == report[i].final_results
            IN  /\ Len(fr) <= Len(ips[i])
                /\ \A k \in DOMAIN fr : fr[k].ip \in Range(ips[i])
                /\ \A k, l \in DOMAIN fr : fr[k].ip = fr[l].ip => k = l

\* The endpoints whose status check returned live.
LiveEndpoints(i) == {tasks[i][k].ip : k \in {j \in DOMAIN tasks[i] : tasks[i][j].result # None}}

\* C8: whichever geolocation batches fail, the endpoints of the final results
\* are the endpoints whose status check returned live, and a result whose
\* endpoint the mapping lacks is rendered with the white flag.
C8_NoLiveResultLost ==
    \A i \in Invs :
        Reported(i) =>
            LET fr == report[i].final_results
            IN  /\ {fr[k].ip : k \in DOMAIN fr} = LiveEndpoints(i)
                /\ \A k \in DOMAIN fr :
                      fr[k].ip \notin DOMAIN geo[i].locations =>
                          SubSeq(fr[k].text, 1, Len(WhiteFlag) + 1) = WhiteFlag \o " "

C8_Witness ==
    /\ Reported(1)
    /\ Len(report[1].final_results) > BatchSize
    /\ \E k, l \in DOMAIN report[1].final_results :
          /\ report[1].final_results[k].ip \notin DOMAIN geo[1].locations
          /\ report[1].final_results[l].ip \in DOMAIN geo[1].locations
    /\ Len(geo[1].chunks) = 3

\* C9: the populated section is in descending order of occupancy, results of
\* equal occupancy are in it in the order they have in the results, the empty
\* section is in the order of the results, and the results are in the order of
\* the input.
C9_SortedStable ==
    \A i \in Invs :
        Reported(i) =>
            LET fr == report[i].final_results
                pop == report[i].populated
                emp == report[i].empty
                live == SelectSeq(tasks[i], LAMBDA t : t.result # None)
            IN  /\ \A k \in 1 .. Len(pop) - 1 : pop[k].players >= pop[k + 1].players
                /\ \A v \in {fr[k].players : k \in DOMAIN fr} :
                      LET Has(e) == e.players = v
                      IN  IF v > 0 THEN SelectSeq(pop, Has) = SelectSeq(fr, Has)
                          ELSE SelectSeq(pop, Has) = <<>> /\ emp = SelectSeq(fr, Has)
                /\ Len(pop) + Len(emp) = Len(fr)
                /\ Len(fr) = Len(live)
                /\ \A k \in DOMAIN fr : fr[k].ip = live[k].ip

C9_Witness ==
    /\ Reported(1)
    /\ LET pop == report[1].populated
       IN  /\ Len(pop) = 3
           /\ pop[1].players > pop[2].players /\ pop[2].players = pop[3].players
           /\ pop[2].ip # pop[3].ip
           /\ report[1].final_results[3] = pop[1]
           /\ report[1].final_results[1] = pop[2]

\* C10: whatever the order in which the status checks end, each check's result
\* is that of the endpoint at its position of the input, the results are the
\* live ones in the order of the input, and the display lines are those of the
\* live endpoints' answers taken in the order of the input.
C10_OrderIndependent ==
    \A i \in Invs :
        Reported(i) =>
            LET at == {k \in DOMAIN tasks[i] : tasks[i][k].result # None}
                Rank(k) == Cardinality({j \in at : j <= k})
                fr == report[i].final_results
            IN  /\ Len(tasks[i]) = Len(ips[i])
                /\ \A k \in DOMAIN tasks[i] : tasks[i][k].ip = ips[i][k]
                /\ \A k \in at : tasks[i][k].result.ip = ips[i][k]
                /\ Len(fr) = Cardinality(at)
                /\ \A k \in at :
                      /\ fr[Rank(k)].ip = ips[i][k]
                      /\ fr[Rank(k)].players =
                            Get(Get(tasks[i][k].result.data, "players", EmptyObject), "online", 0)
                /\ report[i].final_lines
                      = FinalLines(Populated(Merge([r \in 1 .. Cardinality(at) |->
                                                       tasks[i][CHOOSE k \in at : Rank(k) = r].result],
                                                   geo[i].locations)),
                                   EmptyServers(fr))

C10_Witness ==
    /\ Reported(1)
    /\ \E k \in DOMAIN tasks[1] : tasks[1][k].overtook /\ tasks[1][k].result # None
    /\ \E k, l \in DOMAIN report[1].final_results :
          report[1].final_results[k].players # report[1].final_results[l].players
    /\ Len(report[1].final_results) = Len(ips[1])
    /\ Len(ips[1]) >= 3

\* The display line `line` is the entry of the endpoint ip: after the flag
\* (two characters) it reads " **ip**".
Names(line, ip) ==
    /\ Len(line) >= Len(ip) + 7
    /\ SubSeq(line, 3, Len(ip) + 7) = " **" \o ip \o "**"

\* C11: the report has as many entries naming an endpoint as status checks of
\* that endpoint returned live (one per live result, none for an endpoint that
\* is not live); the populated section holds results of occupancy > 0 and the
\* empty section results of occupancy 0, together all of them; a section with
\* entries is a header with the number of its entries followed by its entries
\* (the populated one closed by a blank line), and a section without entries
\* is no line at all.
C11_PartitionAndHeaders ==
    \A i \in Invs :
        Reported(i) =>
            LET lines == report[i].final_lines
                fr == report[i].final_results
                pop == report[i].populated
                emp == report[i].empty
                np == IF pop = <<>> THEN 0 ELSE Len(pop) + 2
                ne == IF emp = <<>> THEN 0 ELSE Len(emp) + 1
            IN  /\ \A ip \in Range(ips[i]) :
                      Cardinality({k \in DOMAIN lines : Names(lines[k], ip)})
                        = Cardinality({k \in DOMAIN tasks[i] :
                                          tasks[i][k].ip = ip /\ tasks[i][k].result # None})
                /\ \A k \in DOMAIN pop : pop[k].players > 0
                /\ \A k \in DOMAIN emp : emp[k].players = 0
                /\ Len(pop) + Len(emp) = Len(fr)
                /\ Len(lines) = np + ne
                /\ pop # <<>> =>
                      /\ lines[1] = "**" \o GreenCircle \o " Servers with Players ("
                                       \o ToString(Len(pop)) \o "):**"
                      /\ \A k \in DOMAIN pop : Names(lines[1 + k], pop[k].ip)
                      /\ lines[np] = ""
                /\ emp # <<>> =>
                      /\ lines[np + 1] = "**" \o WhiteCircle \o " Online (Empty) Servers ("
                                            \o ToString(Len(emp)) \o "):**"
                      /\ \A k \in DOMAIN emp : Names(lines[np + 1 + k], emp[k].ip)

C11_Witness ==
    /\ Reported(1)
    /\ Len(report[1].populated) = 1
    /\ Len(report[1].empty) = 1
    /\ \E k \in DOMAIN tasks[1] : tasks[1][k].result = None
    /\ Len(report[1].final_lines) = 5

\* C12: when every display line is under the limit, no message of the report
\* is longer than the limit: not the first, which carries the header, and
\* not the last, with or without the summary.
C12_ChunksWithinLimit ==
    \A i \in Invs :
        (/\ Reported(i)
         /\ report[i].final_lines # <<>>
         /\ \A k \in 1 .. Len(report[i].final_lines) : Len(report[i].final_lines[k]) < MsgLimit)
        => \A m \in 1 .. Len(report[i].messages) : Len(report[i].messages[m]) <= MsgLimit

C12_Witness ==
    /\ pc[1] = "presence_idle"
    /\ \A k \in 1 .. Len(report[1].final_lines) : Len(report[1].final_lines[k]) < MsgLimit
    /\ Len(report[1].messages) >= 3
    /\ \E m \in 1 .. Len(report[1].messages) : Len(report[1].messages[m]) = MsgLimit
    /\ \E k \in 1 .. Len(report[1].final_lines) : Len(report[1].final_lines[k]) = MsgLimit - 1

\* The number of characters of the first j messages of the report of i.
RECURSIVE MsgEnd(_, _)
MsgEnd(i, j) == IF j = 0 THEN 0 ELSE MsgEnd(i, j - 1) + Len(report[i].messages[j])

\* The positions in the text of the report at which the header or a display
\* line (with its newline) ends.
LineEnds(i) ==
    { Len(Header) + JoinedLen(report[i].final_lines, 1, m) : m \in 0 .. Len(report[i].final_lines) }

\* The summary is the whole last message of the report of i.
SummaryAlone(i) == report[i].messages[Len(report[i].messages)] = report[i].footer

\* len of the last chunk of display lines of the report of i
LastChunkLen(i) ==
    IF SummaryAlone(i) THEN Len(report[i].messages[Len(report[i].messages) - 1])
    ELSE Len(report[i].messages[Len(report[i].messages)]) - Len(report[i].footer)

\* The messages of the report of i, put together, are the header, every
\* display line in order with its newline, and the summary; every message but
\* the last ends where a display line ends; the summary ends the last message.
ContentPreserved(i) ==
    LET r == report[i]
        last == r.messages[Len(r.messages)]
    IN  /\ Str(r.messages) = Header \o JoinLines(r.final_lines, 1, Len(r.final_lines)) \o r.footer
        /\ \A j \in 1 .. Len(r.messages) - 1 : MsgEnd(i, j) \in LineEnds(i)
        /\ Len(last) >= Len(r.footer)
        /\ SubSeq(last, Len(last) - Len(r.footer) + 1, Len(last)) = r.footer

\* C13 as stated: chunking preserves content, splits no display line, and the
\* summary ends the last chunk exactly when the two together are within the
\* limit, and is a final message of its own otherwise.
C13_SummaryAppendedWhenItFits ==
    \A i \in Invs :
        (Reported(i) /\ report[i].final_lines # <<>>)
        => /\ ContentPreserved(i)
           /\ ~SummaryAlone(i) <=> LastChunkLen(i) + Len(report[i].footer) <= MsgLimit

\* C13, amended: chunking preserves content, splits no display line, and the
\* summary ends the last chunk exactly when the two together stay under the
\* limit (line 234 counts one character more than is sent), and is a final
\* message of its own otherwise.
C13_SummaryAppendedWhenUnderLimit ==
    \A i \in Invs :
        (Reported(i) /\ report[i].final_lines # <<>>)
        => /\ ContentPreserved(i)
           /\ ~SummaryAlone(i) <=> LastChunkLen(i) + Len(report[i].footer) < MsgLimit

C13_Witness ==
    /\ pc[1] = "presence_idle"
    /\ Len(report[1].final_lines) >= 2
    /\ SummaryAlone(1)
    /\ LastChunkLen(1) + Len(report[1].footer) = MsgLimit

IsPost(e) == e.op = "post"

\* The batch requests invocation i has made, in order.
Posts(i) == SelectSeq(geo[i].log, IsPost)

\* The endpoints invocation i passes to the geolocation lookup.
ValidIps(i) == [k \in 1 .. Len(valid_servers[i]) |-> valid_servers[i][k].ip]

\* C14: a lookup of n endpoints has made ceil(n / 100) batch requests when it
\* returns, each of at most 100 endpoints, the c-th being the c-th slice of 100
\* of the input, so that every endpoint is in exactly one request; with no
\* endpoint there is no request and the mapping is empty.
C14_BatchSlices ==
    \A i \in Invs :
        /\ Live(i) => requests[i].posts = Len(Posts(i))
        /\ Reported(i) =>
             LET n == Len(ValidIps(i))
                 posts == Posts(i)
             IN  /\ Len(posts) * BatchSize >= n
                 /\ Len(posts) > 0 => (Len(posts) - 1) * BatchSize < n
                 /\ \A c \in 1 .. Len(posts) :
                        /\ Len(posts[c].ips) \in 1 .. BatchSize
                        /\ posts[c].ips = SubSeq(ValidIps(i), (c - 1) * BatchSize + 1,
                                                 Min(c * BatchSize, n))
                 /\ n = 0 => posts = <<>> /\ DOMAIN geo[i].locations = {}

C14_Witness ==
    /\ Reported(1)
    /\ Len(ValidIps(1)) = 2 * BatchSize + 50
    /\ [c \in 1 .. Len(Posts(1)) |-> Len(Posts(1)[c].ips)] = <<BatchSize, BatchSize, 50>>

\* C15: between every two consecutive batch requests of a lookup there is a
\* pacing delay, whatever the earlier request came to.
C15_PacedBetweenBatches ==
    \A i \in Invs :
        \A k \in 1 .. Len(geo[i].log) - 1 :
            geo[i].log[k].op = "post" => geo[i].log[k + 1].op # "post"

\* Batch c of invocation i was answered 200 with one entry per endpoint of the
\* batch, each with the endpoint and a country code; any other reply (an
\* exception, another status, a malformed or incomplete body) is a failure.
BatchOk(i, c) ==
    LET reply == geo[i].replies[c]
        chunk == geo[i].chunks[c]
    IN  /\ reply.kind = "http"
        /\ reply.status = HttpOk
        /\ Len(reply.results) = Len(chunk)
        /\ \A k \in 1 .. Len(chunk) :
              /\ DOMAIN reply.results[k] = {"query", "countryCode"}
              /\ reply.results[k].query = chunk[k]

\* C16: whichever batches fail, every batch is requested and answered, every
\* entry of a batch that succeeded is in the mapping when the lookup returns,
\* before or after the failed one, and an endpoint that the mapping lacks or
\* maps to no country is an endpoint of a failed batch.
C16_BatchFailureIsolated ==
    \A i \in Invs :
        Reported(i) =>
            LET g == geo[i]
            IN  /\ Len(Posts(i)) = Len(g.chunks)
                /\ Len(g.replies) = Len(g.chunks)
                /\ \A c \in 1 .. Len(g.chunks) :
                      BatchOk(i, c) =>
                          \A k \in 1 .. Len(g.chunks[c]) :
                              /\ g.chunks[c][k] \in DOMAIN g.locations
                              /\ g.locations[g.chunks[c][k]] = [code |-> g.replies[c].results[k].countryCode]
                /\ \A ip \in Range(ValidIps(i)) :
                      Lookup(g.locations, ip) = None =>
                          \E c \in 1 .. Len(g.chunks) : ~BatchOk(i, c) /\ ip \in Range(g.chunks[c])

C16_Witness ==
    /\ Reported(1)
    /\ Len(geo[1].chunks) = 3
    /\ BatchOk(1, 1) /\ ~BatchOk(1, 2) /\ BatchOk(1, 3)
    /\ geo[1].replies[2].kind = "exception"
    /\ \E ip \in Range(ValidIps(1)) : ip \notin DOMAIN geo[1].locations

IsLiveTask(t) == t.result # None

\* The endpoints whose status check returned live, in the order of the tasks.
LiveSeq(i) ==
    LET live == SelectSeq(tasks[i], IsLiveTask)
    IN  [k \in 1 .. Len(live) |-> live[k].ip]

\* The endpoints of the chunks cs, in order.
RECURSIVE Flatten(_)
Flatten(cs) == IF cs = <<>> THEN <<>> ELSE Head(cs) \o Flatten(Tail(cs))

\* C17: the geolocation lookup is called at most once in a scan and exactly
\* once in a scan that reports; when it is called, and whenever a geolocation
\* request has been made, every endpoint of the input has had its status
\* check started and every status check has ended; and the endpoints passed
\* to the lookup are the endpoints whose status check returned live.
C17_PhasesDoNotOverlap ==
    \A i \in Invs :
        /\ geo[i].calls <= 1
        /\ Reported(i) => geo[i].calls = 1
        /\ (Live(i) /\ (geo[i].calls > 0 \/ requests[i].posts > 0)) =>
              /\ Len(tasks[i]) = Len(ips[i])
              /\ Pending(i) = {}
              /\ Flatten(geo[i].chunks) = LiveSeq(i)
              /\ ValidIps(i) = LiveSeq(i)
        /\ geo[i].calls = 0 => geo[i].log = <<>>

C17_Witness ==
    /\ pc[1] = "geo_post"
    /\ Len(tasks[1]) = 3
    /\ \E k \in 1 .. 3 : tasks[1][k].result = None
    /\ \E k \in 1 .. 3 : tasks[1][k].overtook
    /\ Len(LiveSeq(1)) = 2

\* C18: the status checks started are the entries of the input, in order, one
\* check and one request per entry, all of them started when the join begins;
\* a start leaves the invocation in the pacing delay, and only the first start
\* of a scan does not follow the return of a pacing delay.  (That an earlier
\* check can be in flight when a later one starts is the witness.)
C18_DispatchInInputOrder ==
    /\ [](\A i \in Invs :
             Live(i) =>
                 /\ Len(tasks[i]) <= Len(ips[i])
                 /\ \A k \in 1 .. Len(tasks[i]) : tasks[i][k].ip = ips[i][k]
                 /\ requests[i].checks = Len(tasks[i])
                 /\ Len(tasks[i]) =
                        CASE pc[i] = "presence_scanning" -> index[i]
                          [] pc[i] = "pacing" -> index[i] + 1
                          [] pc[i] \in {"presence_finalizing", "gather", "presence_resolving", "geo_post",
                                        "geo_sleep", "send_report", "presence_idle"} -> Len(ips[i])
                          [] OTHER -> 0)
    /\ [][\A i \in Invs :
             /\ Len(tasks'[i]) > Len(tasks[i]) =>
                   /\ Len(tasks'[i]) = Len(tasks[i]) + 1
                   /\ pc'[i] = "pacing"
                   /\ pc[i] \in {"send_start", "presence_scanning", "pacing"}
                   /\ pc[i] = "send_start" => tasks[i] = <<>>
             /\ (pc'[i] = "presence_scanning" /\ pc[i] # "presence_scanning") =>
                   \/ pc[i] = "pacing"
                   \/ pc[i] = "send_start" /\ tasks[i] = <<>>]_vars

C18_Witness ==
    /\ pc[1] = "pacing"
    /\ Len(tasks[1]) = 3
    /\ ~tasks[1][1].done
    /\ tasks[1][2].done
    /\ ~tasks[1][3].done
    /\ ips[1][1] # ips[1][3]

\* C19 as stated: a status check whose start brings the count of started
\* checks from a multiple of 50 to the next number is started in the step in
\* which a progress notification is emitted, no other start emits one, and
\* the notification names the endpoint started last, with the count of
\* endpoints started (taken either before or after that step) and the total.
C19_NamesLastDispatched ==
    [][\A i \in Invs :
          Len(tasks'[i]) > Len(tasks[i]) =>
              IF Len(tasks[i]) % ProgressEvery = 0
                THEN /\ pc[i] = "presence_scanning"
                     /\ \E c \in {Len(tasks[i]), Len(tasks'[i])} :
                           /\ c >= 1
                           /\ presence' = ScanningText(c, Len(ips[i]), tasks'[i][c].ip)
                ELSE presence' = presence]_vars

\* C19, amended: a progress notification is emitted whenever the count of
\* started checks is a multiple of 50, zero included, before the next check is
\* started, and at no other start; it names the endpoint that is started
\* next, with the count of endpoints started before it and the total.
C19_NamesNextDispatched ==
    [][\A i \in Invs :
          Len(tasks'[i]) > Len(tasks[i]) =>
              IF Len(tasks[i]) % ProgressEvery = 0
                THEN /\ pc[i] = "presence_scanning"
                     /\ presence' = ScanningText(Len(tasks[i]), Len(ips[i]), ips[i][Len(tasks[i]) + 1])
                     /\ tasks'[i][Len(tasks'[i])].ip = ips[i][Len(tasks[i]) + 1]
                ELSE presence' = presence]_vars

C19_Witness ==
    /\ pc[1] = "pacing"
    /\ Len(ips[1]) = ProgressEvery + 1
    /\ Len(tasks[1]) = ProgressEvery + 1
    /\ tasks[1][ProgressEvery + 1].ip = "51"
    /\ presence = "Scanning 50/51 (51)..."

\* C20: whenever the gate is free, no status check started by any invocation
\* is still in flight.
C20_NoCheckOutlivesScan ==
    ~locked => \A i \in Invs : Pending(i) = {} /\ orphans[i] = 0
====
